---- MODULE Spec2Model ----
(***************************************************************************)
(* Startup fundraising platform API (src/main.py): the request handlers    *)
(* over the document store, one atomic action per handler (Spec), and the  *)
(* registration and interest handlers split at their store calls for two   *)
(* concurrent requests (SpecCReg, SpecCInt).  A request is accepted when   *)
(* the previous response has been delivered (Deliver), so resp always is   *)
(* the response of the request that ran last.                              *)
(*                                                                         *)
(* A collection is a sequence in insertion order; a document's _id is its  *)
(* position, so sort("_id", -1) is reverse insertion order and nothing is  *)
(* ever deleted.  An identifier STRING is a record [n, sp]: n is the       *)
(* ObjectId it parses to and sp its spelling.  str(ObjectId) is the lower  *)
(* case hex spelling; ObjectId(s) also accepts the upper case spelling of  *)
(* the same 24 hex digits, and rejects everything else.                    *)
(*                                                                         *)
(* Payload fields no handler reads (full_name, company, company_name,      *)
(* product_description, image_urls, previous_funding, message, is_active)  *)
(* are left out of the documents.                                          *)
(***************************************************************************)
EXTENDS Integers, Sequences, FiniteSets, TLC

VARIABLES users, pitches, profiles, interests, reports, resp, proc

vars == <<users, pitches, profiles, interests, reports, resp, proc>>
db == <<users, pitches, profiles, interests, reports>>

\* Bounds of the model.
MaxUsers == 2
MaxInterests == 2
MaxReports == 1

Emails == {"a@x", "b@x"}
Amounts == {0, 1}
Statuses == {"pending", "approved", "rejected"}
Workers == {1, 2}

\* ---------------------------------------------------------------- ids

BadId == [n |-> 0, sp |-> "bad"]
\* The identifier strings a client sends: every ObjectId up to one past the
\* largest id the store can hold, in both spellings, and a malformed string.
IdStrings == [n : 1..(Cardinality(Emails) + 1), sp : {"lower", "upper"}] \cup {BadId}

\* Mutant of ValidId: the parse never fails.
ValidId_Any(id_str) == TRUE

\* bson.ObjectId.is_valid, the test behind oid's try/except.
ValidId(id_str) == id_str.sp # "bad"

\* oid: the ObjectId a well-formed string parses to (spelling dropped).
oid(id_str) == id_str.n

\* str(doc["_id"]): the lower case hex spelling.
str(n) == [n |-> n, sp |-> "lower"]

\* ---------------------------------------------------------------- store

RECURSIVE SumSeq(_)
SumSeq(s) == IF s = <<>> THEN 0 ELSE Head(s) + SumSeq(Tail(s))

RECURSIVE Reverse(_)
Reverse(s) == IF s = <<>> THEN <<>> ELSE Append(Reverse(Tail(s)), Head(s))

\* A cursor over the documents whose ids are in S: the ids in the order of
\* insertion, which is the order of _id.
RECURSIVE Cursor(_)
Cursor(S) ==
    IF S = {} THEN <<>>
    ELSE LET first == CHOOSE x \in S : \A y \in S : x <= y
         IN <<first>> \o Cursor(S \ {first})

\* find_one over the documents whose ids are in S: the id of the first one,
\* 0 for None.
FindOne(S) == IF S = {} THEN 0 ELSE Cursor(S)[1]

\* create_document(collection, data): the collection with the document
\* inserted under a fresh _id; the store enforces no uniqueness.
create_document(coll, doc) == Append(coll, doc)

\* The _id create_document gives the inserted document.
inserted_id(coll) == Len(coll) + 1

\* find_one({"_id": ObjectId n}).
FindById(coll, n) == IF n \in 1..Len(coll) THEN n ELSE 0

\* Mutant of FindUserByEmail: the lookup never matches.
FindUserByEmail_NoMatch(us, email) == 0

\* find_one({"email": email}) on user.
FindUserByEmail(us, email) == FindOne({k \in 1..Len(us) : us[k].email = email})

\* Mutant of FindPitchByOwner: the lookup never matches.
FindPitchByOwner_NoMatch(ps, user_id) == 0

\* find_one({"owner_user_id": user_id}) on startuppitch: equality of strings.
FindPitchByOwner(ps, user_id) == FindOne({k \in 1..Len(ps) : ps[k].owner_user_id = user_id})

\* find_one({"user_id": user_id}) on investorprofile.
FindProfileByUser(prs, user_id) == FindOne({k \in 1..Len(prs) : prs[k].user_id = user_id})

\* find({"startup_id": startup_id}) on interest: the ids of the documents whose
\* stored startup_id is the same string.
InterestsOf(its, startup_id) == Cursor({k \in 1..Len(its) : its[k].startup_id = startup_id})

\* Mutant of InterestTotal: the total is overwritten, not accumulated.
InterestTotal_Last(its, startup_id) ==
    LET ids == InterestsOf(its, startup_id)
    IN IF ids = <<>> THEN 0 ELSE its[ids[Len(ids)]].committed_amount

\* The loop of express_interest: total += float(it.get("committed_amount")).
InterestTotal(its, startup_id) ==
    LET ids == InterestsOf(its, startup_id)
    IN SumSeq([k \in 1..Len(ids) |-> its[ids[k]].committed_amount])

\* to_public: _id renamed to id and rendered as a string.
to_public(doc, n) == [id |-> str(n), doc |-> doc]

\* Mutant of IsInvestor: the role is not looked at.
IsInvestor_Any(us, n) == TRUE

\* inv_user.get("role") != "investor" negated, for a user id that was found.
IsInvestor(us, n) == us[n].role = "investor"

\* The pitch_doc register_startup builds, written by insert and by $set alike.
PitchDoc(user_id) ==
    [owner_user_id |-> user_id, status |-> "pending", total_raised |-> 0]

\* The status parameter of list_startups: "approved" when the query string
\* has none.
Absent == "<absent>"
StatusParam(query) == IF query = Absent THEN "approved" ELSE query

\* The query of list_startups: no condition when status is falsy.
StatusQuery(status, p) == IF status # "" THEN p.status = status ELSE TRUE

\* Mutant of SetStatusValue: only a pending pitch is moderated.
SetStatusValue_Guarded(old, status) == IF old = "pending" THEN status ELSE old

\* The value update_one writes with {"$set": {"status": status}}.
SetStatusValue(old, status) == status

\* ---------------------------------------------------------------- responses

Ok(op, args, body, q) ==
    [op |-> op, args |-> args, code |-> 200, detail |-> "", body |-> body, queries |-> q]

Err(op, args, code, detail, q) ==
    [op |-> op, args |-> args, code |-> code, detail |-> detail, body |-> <<>>, queries |-> q]

\* No response waiting to be delivered.
NoResp == Ok("none", <<>>, <<>>, 0)

Idle == [pc |-> "idle"]

Init ==
    /\ users = <<>>
    /\ pitches = <<>>
    /\ profiles = <<>>
    /\ interests = <<>>
    /\ reports = <<>>
    /\ resp = NoResp
    /\ proc = [w \in Workers |-> Idle]

\* The response of the last request reaches the client.
Deliver ==
    /\ resp # NoResp
    /\ resp' = NoResp
    /\ UNCHANGED <<users, pitches, profiles, interests, reports, proc>>

\* ---------------------------------------------------------------- handlers

\* POST /api/register/startup
RegisterStartup(email) ==
    LET existing == FindUserByEmail(users, email)
        uid == IF existing # 0 THEN existing ELSE inserted_id(users)
        user_id == str(uid)
        existing_pitch == FindPitchByOwner(pitches, user_id)
        sid == IF existing_pitch # 0 THEN existing_pitch ELSE inserted_id(pitches)
    IN /\ resp = NoResp
       /\ existing = 0 => Len(users) < MaxUsers
       /\ users' = IF existing # 0
                   THEN [users EXCEPT ![existing].role = "startup"]
                   ELSE create_document(users, [email |-> email, role |-> "startup"])
       /\ pitches' = IF existing_pitch # 0
                     THEN [pitches EXCEPT ![existing_pitch] = PitchDoc(user_id)]
                     ELSE create_document(pitches, PitchDoc(user_id))
       /\ resp' = Ok("register_startup", [email |-> email],
                     [user_id |-> user_id, startup_id |-> str(sid)], 4)
       /\ UNCHANGED <<profiles, interests, reports, proc>>

\* POST /api/register/investor
RegisterInvestor(email) ==
    LET existing == FindUserByEmail(users, email)
        uid == IF existing # 0 THEN existing ELSE inserted_id(users)
        user_id == str(uid)
        prof == FindProfileByUser(profiles, user_id)
    IN /\ resp = NoResp
       /\ existing = 0 => Len(users) < MaxUsers
       /\ users' = IF existing # 0
                   THEN [users EXCEPT ![existing].role = "investor"]
                   ELSE create_document(users, [email |-> email, role |-> "investor"])
       /\ profiles' = IF prof # 0
                      THEN profiles
                      ELSE create_document(profiles, [user_id |-> user_id])
       /\ resp' = Ok("register_investor", [email |-> email], [user_id |-> user_id], 4)
       /\ UNCHANGED <<pitches, interests, reports, proc>>

\* POST /api/admin/bootstrap
AdminBootstrap(email) ==
    LET existing == FindUserByEmail(users, email)
        uid == IF existing # 0 THEN existing ELSE inserted_id(users)
    IN /\ resp = NoResp
       /\ existing = 0 => Len(users) < MaxUsers
       /\ users' = IF existing # 0
                   THEN [users EXCEPT ![existing].role = "admin"]
                   ELSE create_document(users, [email |-> email, role |-> "admin"])
       /\ resp' = Ok("admin_bootstrap", [email |-> email], [user_id |-> str(uid)], 2)
       /\ UNCHANGED <<pitches, profiles, interests, reports, proc>>

\* Mutant of ListItems: the sort is ascending.
ListItems_Ascending(ps, status) ==
    LET ids == Cursor({k \in 1..Len(ps) : StatusQuery(status, ps[k])})
    IN [k \in 1..Len(ids) |-> to_public(ps[ids[k]], ids[k])]

\* The items of list_startups: find(q).sort("_id", -1), each through to_public.
ListItems(ps, status) ==
    LET ids == Reverse(Cursor({k \in 1..Len(ps) : StatusQuery(status, ps[k])}))
    IN [k \in 1..Len(ids) |-> to_public(ps[ids[k]], ids[k])]

\* GET /api/startups
ListStartups(query) ==
    /\ resp = NoResp
    /\ resp' = Ok("list_startups", [query |-> query],
                  ListItems(pitches, StatusParam(query)), 1)
    /\ UNCHANGED <<users, pitches, profiles, interests, reports, proc>>

\* POST /api/startups/{startup_id}/interest
ExpressInterest(startup_id, investor_user_id, committed_amount) ==
    LET args == [startup_id |-> startup_id, investor_user_id |-> investor_user_id]
        fail(code, detail, q) ==
            /\ resp' = Err("express_interest", args, code, detail, q)
            /\ UNCHANGED <<users, pitches, profiles, interests, reports, proc>>
    IN /\ resp = NoResp
       /\ IF ~ValidId(startup_id) THEN fail(400, "Invalid id format", 0)
          ELSE IF FindById(pitches, oid(startup_id)) = 0
               THEN fail(404, "Startup not found", 1)
          ELSE IF ~ValidId(investor_user_id) THEN fail(400, "Invalid id format", 1)
          ELSE IF \/ FindById(users, oid(investor_user_id)) = 0
                  \/ ~IsInvestor(users, oid(investor_user_id))
               THEN fail(400, "Invalid investor user", 2)
          ELSE LET its == create_document(interests, [startup_id |-> startup_id,
                                             investor_user_id |-> investor_user_id,
                                             committed_amount |-> committed_amount])
                   total == InterestTotal(its, startup_id)
               IN /\ Len(interests) < MaxInterests
                  /\ interests' = its
                  /\ pitches' = [pitches EXCEPT ![oid(startup_id)].total_raised = total]
                  /\ resp' = Ok("express_interest", args,
                                [interest_id |-> str(inserted_id(interests)), total_raised |-> total], 5)
                  /\ UNCHANGED <<users, profiles, reports, proc>>

\* The response of startup_dashboard in the current state.
DashboardResponse(startup_id) ==
    LET args == [startup_id |-> startup_id]
        ids == Reverse(InterestsOf(interests, startup_id))
    IN IF ~ValidId(startup_id)
       THEN Err("startup_dashboard", args, 400, "Invalid id format", 0)
       ELSE IF FindById(pitches, oid(startup_id)) = 0
       THEN Err("startup_dashboard", args, 404, "Startup not found", 1)
       ELSE Ok("startup_dashboard", args,
               [startup |-> to_public(pitches[oid(startup_id)], oid(startup_id)),
                interested_investors |->
                    [k \in 1..Len(ids) |->
                        [id |-> str(ids[k]),
                         committed_amount |-> interests[ids[k]].committed_amount,
                         investor |-> interests[ids[k]].investor_user_id]],
                total_raised |-> pitches[oid(startup_id)].total_raised],
               IF ids = <<>> THEN 2 ELSE 3)

\* GET /api/startups/{startup_id}/dashboard
StartupDashboard(startup_id) ==
    /\ resp = NoResp
    /\ resp' = DashboardResponse(startup_id)
    /\ UNCHANGED <<users, pitches, profiles, interests, reports, proc>>

\* POST /api/reports
CreateReport ==
    /\ resp = NoResp
    /\ Len(reports) < MaxReports
    /\ reports' = create_document(reports, [status |-> "open"])
    /\ resp' = Ok("create_report", <<>>, [report_id |-> str(inserted_id(reports))], 1)
    /\ UNCHANGED <<users, pitches, profiles, interests, proc>>

\* GET /api/admin/reports
ListReports ==
    /\ resp = NoResp
    /\ resp' = Ok("list_reports", <<>>,
                  Reverse([k \in 1..Len(reports) |-> to_public(reports[k], k)]), 1)
    /\ UNCHANGED <<users, pitches, profiles, interests, reports, proc>>

\* approve_startup and reject_startup: update_one by _id with $set status,
\* 404 when matched_count is 0.
SetStatus(op, startup_id, status) ==
    LET args == [startup_id |-> startup_id]
        n == oid(startup_id)
    IN /\ resp = NoResp
       /\ IF ~ValidId(startup_id)
          THEN /\ resp' = Err(op, args, 400, "Invalid id format", 0)
               /\ UNCHANGED <<users, pitches, profiles, interests, reports, proc>>
          ELSE IF FindById(pitches, n) = 0
          THEN /\ resp' = Err(op, args, 404, "Startup not found", 1)
               /\ UNCHANGED <<users, pitches, profiles, interests, reports, proc>>
          ELSE /\ pitches' = [pitches EXCEPT
                                ![n].status = SetStatusValue(pitches[n].status, status)]
               /\ resp' = Ok(op, args, [status |-> status], 1)
               /\ UNCHANGED <<users, profiles, interests, reports, proc>>

\* POST /api/admin/startups/{startup_id}/approve
ApproveStartup(startup_id) == SetStatus("approve_startup", startup_id, "approved")

\* POST /api/admin/startups/{startup_id}/reject
RejectStartup(startup_id) == SetStatus("reject_startup", startup_id, "rejected")

\* GET /api/admin/analytics
Analytics ==
    /\ resp = NoResp
    /\ resp' = Ok("analytics", <<>>,
                  [users |-> Len(users), startups |-> Len(pitches),
                   investors |-> Cardinality({k \in 1..Len(users) : users[k].role = "investor"}),
                   interests |-> Len(interests),
                   total_funds |-> SumSeq([k \in 1..Len(pitches) |-> pitches[k].total_raised])],
                  5)
    /\ UNCHANGED <<users, pitches, profiles, interests, reports, proc>>

\* ---------------------------------------------------------------- requests

\* The status query strings a client sends.
Queries == Statuses \cup {"", Absent}

\* The identifier strings a client sends as investor_user_id.
InvestorIds == {id \in IdStrings : id.sp # "upper"}

Registration ==
    \/ \E e \in Emails : RegisterStartup(e)
    \/ \E e \in Emails : RegisterInvestor(e)
    \/ \E e \in Emails : AdminBootstrap(e)

Moderation ==
    \/ \E s \in IdStrings : ApproveStartup(s)
    \/ \E s \in IdStrings : RejectStartup(s)

Funding ==
    \/ \E s \in IdStrings, i \in InvestorIds, a \in Amounts : ExpressInterest(s, i, a)
    \/ \E s \in IdStrings : StartupDashboard(s)

\* Interest and dashboard requests that carry a malformed identifier.
MalformedFunding ==
    \/ \E s \in IdStrings, i \in InvestorIds, a \in Amounts :
          /\ ~ValidId(s) \/ ~ValidId(i)
          /\ ExpressInterest(s, i, a)
    \/ \E s \in IdStrings : StartupDashboard(s)

Reporting ==
    \/ \E q \in Queries : ListStartups(q)
    \/ CreateReport
    \/ ListReports
    \/ Analytics

\* Every handler.  The specifications below compose the same actions in
\* slices whose state spaces can be searched exhaustively.
Next == Registration \/ Moderation \/ Funding \/ Reporting \/ Deliver
Spec == Init /\ [][Next]_vars

\* Registration only.
NextReg == Registration \/ Deliver
SpecReg == Init /\ [][NextReg]_vars

\* Registration, moderation, listing and reporting, with the interest and
\* dashboard requests that fail on a malformed identifier.
NextMod == Registration \/ Moderation \/ Reporting \/ MalformedFunding \/ Deliver
SpecMod == Init /\ [][NextMod]_vars

\* Registration, interest and dashboard.
NextFund == Registration \/ Funding \/ Deliver
SpecFund == Init /\ [][NextFund]_vars

\* ---------------------------------------------------------------- concurrent requests

(***************************************************************************)
(* Two requests at a time, each handler advancing one store call per step. *)
(* proc[w] holds worker w's request, its position and its local variables; *)
(* a finished request stays "done" with its response until Finish.         *)
(***************************************************************************)

\* The identifier strings the concurrent clients send: the ids registration
\* returned to them.
ReturnedIds == {str(n) : n \in 1..MaxUsers}

At(w, op, pc) == proc[w].pc = pc /\ proc[w].op = op

\* Worker w moves to pc with the local variables in `locals` assigned.
Goto(w, pc, locals) == [proc EXCEPT ![w] = [pc |-> pc] @@ locals @@ proc[w]]

\* Worker w's handler returns (or raises): its frame is gone, the response
\* `response` waits for the client.
Return(w, response) ==
    [proc EXCEPT ![w] = [pc |-> "done", op |-> proc[w].op] @@ response]

\* Requests in flight that may still insert a User / an Interest.
PendingUsers ==
    Cardinality({w \in Workers : proc[w].pc \in {"find_user", "write_user"}})
PendingInterests ==
    Cardinality({w \in Workers :
                    proc[w].pc \in {"find_startup", "find_investor", "insert"}})

\* A registration request arrives at worker w.
StartRegister(w, op, email) ==
    /\ proc[w].pc = "idle"
    /\ FindUserByEmail(users, email) # 0 \/ Len(users) + PendingUsers < MaxUsers
    /\ proc' = [proc EXCEPT ![w] = [op |-> op, pc |-> "find_user", email |-> email]]
    /\ UNCHANGED <<users, pitches, profiles, interests, reports, resp>>

\* existing = db["user"].find_one({"email": payload.email})
FindUserStep(w, op) ==
    /\ At(w, op, "find_user")
    /\ proc' = Goto(w, "write_user", [existing |-> FindUserByEmail(users, proc[w].email)])
    /\ UNCHANGED <<users, pitches, profiles, interests, reports, resp>>

\* if existing: update_one($set role) else: create_document("user", ...)
WriteUserStep(w, op, role, next) ==
    LET existing == proc[w].existing
        uid == IF existing # 0 THEN existing ELSE inserted_id(users)
    IN /\ At(w, op, "write_user")
       /\ users' = IF existing # 0
                   THEN [users EXCEPT ![existing].role = role]
                   ELSE create_document(users, [email |-> proc[w].email, role |-> role])
       /\ proc' = Goto(w, next, [user_id |-> str(uid)])
       /\ UNCHANGED <<pitches, profiles, interests, reports, resp>>

RS_Start(w, email) == StartRegister(w, "register_startup", email)
RS_FindUser(w) == FindUserStep(w, "register_startup")
RS_WriteUser(w) == WriteUserStep(w, "register_startup", "startup", "find_pitch")

\* existing_pitch = db["startuppitch"].find_one({"owner_user_id": user_id})
RS_FindPitch(w) ==
    /\ At(w, "register_startup", "find_pitch")
    /\ proc' = Goto(w, "write_pitch",
                     [existing_pitch |-> FindPitchByOwner(pitches, proc[w].user_id)])
    /\ UNCHANGED <<users, pitches, profiles, interests, reports, resp>>

\* if existing_pitch: update_one($set pitch_doc) else: create_document(...)
RS_WritePitch(w) ==
    LET existing_pitch == proc[w].existing_pitch
        sid == IF existing_pitch # 0 THEN existing_pitch ELSE inserted_id(pitches)
    IN /\ At(w, "register_startup", "write_pitch")
       /\ pitches' = IF existing_pitch # 0
                     THEN [pitches EXCEPT ![existing_pitch] = PitchDoc(proc[w].user_id)]
                     ELSE create_document(pitches, PitchDoc(proc[w].user_id))
       /\ proc' = Return(w, [code |-> 200, email |-> proc[w].email,
                                   user_id |-> proc[w].user_id, startup_id |-> str(sid)])
       /\ UNCHANGED <<users, profiles, interests, reports, resp>>

RI_Start(w, email) == StartRegister(w, "register_investor", email)
RI_FindUser(w) == FindUserStep(w, "register_investor")
RI_WriteUser(w) == WriteUserStep(w, "register_investor", "investor", "find_profile")

\* prof = db["investorprofile"].find_one({"user_id": user_id})
RI_FindProfile(w) ==
    /\ At(w, "register_investor", "find_profile")
    /\ proc' = Goto(w, "write_profile",
                     [prof |-> FindProfileByUser(profiles, proc[w].user_id)])
    /\ UNCHANGED <<users, pitches, profiles, interests, reports, resp>>

\* if prof: update_one($set ...) else: create_document("investorprofile", ...)
RI_WriteProfile(w) ==
    /\ At(w, "register_investor", "write_profile")
    /\ profiles' = IF proc[w].prof # 0
                   THEN profiles
                   ELSE create_document(profiles, [user_id |-> proc[w].user_id])
    /\ proc' = Return(w, [code |-> 200, email |-> proc[w].email,
                              user_id |-> proc[w].user_id])
    /\ UNCHANGED <<users, pitches, interests, reports, resp>>

\* An express interest request arrives at worker w.
EI_Start(w, startup_id, investor_user_id, committed_amount) ==
    /\ proc[w].pc = "idle"
    /\ Len(interests) + PendingInterests < MaxInterests
    /\ proc' = [proc EXCEPT ![w] =
                  [op |-> "express_interest", pc |-> "find_startup",
                   startup_id |-> startup_id, investor_user_id |-> investor_user_id,
                   committed_amount |-> committed_amount]]
    /\ UNCHANGED <<users, pitches, profiles, interests, reports, resp>>

\* s = db["startuppitch"].find_one({"_id": oid(startup_id)}); 404 if not s
EI_FindStartup(w) ==
    /\ At(w, "express_interest", "find_startup")
    /\ proc' = IF ~ValidId(proc[w].startup_id) THEN Return(w, [code |-> 400])
                ELSE IF FindById(pitches, oid(proc[w].startup_id)) = 0
                     THEN Return(w, [code |-> 404])
                ELSE Goto(w, "find_investor", <<>>)
    /\ UNCHANGED <<users, pitches, profiles, interests, reports, resp>>

\* inv_user = db["user"].find_one({"_id": oid(investor_user_id)}); 400 unless
\* an investor
EI_FindInvestor(w) ==
    /\ At(w, "express_interest", "find_investor")
    /\ proc' = IF ~ValidId(proc[w].investor_user_id) THEN Return(w, [code |-> 400])
                ELSE IF \/ FindById(users, oid(proc[w].investor_user_id)) = 0
                        \/ ~IsInvestor(users, oid(proc[w].investor_user_id))
                     THEN Return(w, [code |-> 400])
                ELSE Goto(w, "insert", <<>>)
    /\ UNCHANGED <<users, pitches, profiles, interests, reports, resp>>

\* interest_id = create_document("interest", {...})
EI_Insert(w) ==
    /\ At(w, "express_interest", "insert")
    /\ interests' = create_document(interests,
                           [startup_id |-> proc[w].startup_id,
                            investor_user_id |-> proc[w].investor_user_id,
                            committed_amount |-> proc[w].committed_amount])
    /\ proc' = Goto(w, "sum", [interest_id |-> str(inserted_id(interests))])
    /\ UNCHANGED <<users, pitches, profiles, reports, resp>>

\* total = 0.0; for it in db["interest"].find({"startup_id": startup_id}): ...
EI_Sum(w) ==
    /\ At(w, "express_interest", "sum")
    /\ proc' = Goto(w, "update", [total |-> InterestTotal(interests, proc[w].startup_id)])
    /\ UNCHANGED <<users, pitches, profiles, interests, reports, resp>>

\* db["startuppitch"].update_one({"_id": oid(startup_id)}, {"$set": {"total_raised": total}})
EI_Update(w) ==
    /\ At(w, "express_interest", "update")
    /\ pitches' = [pitches EXCEPT ![oid(proc[w].startup_id)].total_raised = proc[w].total]
    /\ proc' = Return(w, [code |-> 200, startup_id |-> proc[w].startup_id,
                              interest_id |-> proc[w].interest_id,
                              total_raised |-> proc[w].total])
    /\ UNCHANGED <<users, profiles, interests, reports, resp>>

\* The response of worker w's request reaches its client.
Finish(w) ==
    /\ proc[w].pc = "done"
    /\ proc' = [proc EXCEPT ![w] = Idle]
    /\ UNCHANGED <<users, pitches, profiles, interests, reports, resp>>

RegistrationSteps(w) ==
    \/ \E e \in Emails : RS_Start(w, e)
    \/ RS_FindUser(w)
    \/ RS_WriteUser(w)
    \/ RS_FindPitch(w)
    \/ RS_WritePitch(w)
    \/ \E e \in Emails : RI_Start(w, e)
    \/ RI_FindUser(w)
    \/ RI_WriteUser(w)
    \/ RI_FindProfile(w)
    \/ RI_WriteProfile(w)

InterestSteps(w) ==
    \/ \E s \in ReturnedIds, i \in ReturnedIds, a \in Amounts : EI_Start(w, s, i, a)
    \/ EI_FindStartup(w)
    \/ EI_FindInvestor(w)
    \/ EI_Insert(w)
    \/ EI_Sum(w)
    \/ EI_Update(w)

\* Two concurrent registration requests, from the empty store.
NextCReg == \E w \in Workers : RegistrationSteps(w) \/ Finish(w)
SpecCReg == Init /\ [][NextCReg]_vars

\* The store after register startup for a@x and register investor for b@x.
InitFunding ==
    /\ users = <<[email |-> "a@x", role |-> "startup"], [email |-> "b@x", role |-> "investor"]>>
    /\ pitches = <<PitchDoc(str(1))>>
    /\ profiles = <<[user_id |-> str(2)]>>
    /\ interests = <<>>
    /\ reports = <<>>
    /\ resp = NoResp
    /\ proc = [w \in Workers |-> Idle]

\* Two concurrent express interest requests on that store.
NextCInt == \E w \in Workers : InterestSteps(w) \/ Finish(w)
SpecCInt == InitFunding /\ [][NextCInt]_vars

\* ---------------------------------------------------------------- properties

\* The ids of the Interest documents that reference pitch n, whatever the
\* spelling of their startup_id, oldest first.
RECURSIVE RefsFrom(_, _)
RefsFrom(n, i) ==
    IF i > Len(interests) THEN <<>>
    ELSE IF interests[i].startup_id.sp # "bad" /\ interests[i].startup_id.n = n
         THEN <<i>> \o RefsFrom(n, i + 1)
         ELSE RefsFrom(n, i + 1)

Refs(n) == RefsFrom(n, 1)

\* The sum of committed_amount over the Interest documents referencing pitch n.
RefTotal(n) ==
    LET ids == Refs(n) IN SumSeq([k \in 1..Len(ids) |-> interests[ids[k]].committed_amount])

UsersWithEmail(e) == {u \in 1..Len(users) : users[u].email = e}
PitchesOfOwner(u) == {p \in 1..Len(pitches) : pitches[p].owner_user_id.n = u}
ProfilesOfUser(u) == {p \in 1..Len(profiles) : profiles[p].user_id.n = u}

\* C1: in every state, every pitch's total_raised is the sum of
\* committed_amount over the Interest documents that reference the pitch
\* (in particular after a startup with interests registers again).
C1_TotalRaisedIsSum ==
    \A n \in 1..Len(pitches) : pitches[n].total_raised = RefTotal(n)

\* At most one User per email, one StartupPitch per owner, one
\* InvestorProfile per user.
OnePerKey ==
    /\ \A e \in Emails : Cardinality(UsersWithEmail(e)) <= 1
    /\ \A u \in 1..Len(users) : Cardinality(PitchesOfOwner(u)) <= 1
    /\ \A u \in 1..Len(users) : Cardinality(ProfilesOfUser(u)) <= 1

\* C2 as stated: register startup for an email that already has a User
\* inserts no User and no StartupPitch and returns the ids of the existing
\* documents; the natural keys stay unique.
C2_NoInsertForKnownEmail ==
    [][/\ OnePerKey'
       /\ (resp'.op = "register_startup" /\ UsersWithEmail(resp'.args.email) # {})
            => /\ Len(users') = Len(users)
               /\ Len(pitches') = Len(pitches)
               /\ \E u \in UsersWithEmail(resp'.args.email) :
                     /\ resp'.body.user_id = [n |-> u, sp |-> "lower"]
                     /\ \E p \in PitchesOfOwner(u) :
                           resp'.body.startup_id = [n |-> p, sp |-> "lower"]]_vars

\* C2 amended: register startup for an email that already has a User inserts
\* no User and returns that User's id; when that User already owns a
\* StartupPitch it inserts no StartupPitch and returns that pitch's id,
\* otherwise it inserts one; the natural keys stay unique.
C2_RegisterStartupIdempotent ==
    [][/\ OnePerKey'
       /\ (resp'.op = "register_startup" /\ UsersWithEmail(resp'.args.email) # {})
            => /\ Len(users') = Len(users)
               /\ \E u \in UsersWithEmail(resp'.args.email) :
                     /\ resp'.body.user_id = [n |-> u, sp |-> "lower"]
                     /\ IF PitchesOfOwner(u) # {}
                        THEN /\ Len(pitches') = Len(pitches)
                             /\ \E p \in PitchesOfOwner(u) :
                                   resp'.body.startup_id = [n |-> p, sp |-> "lower"]
                        ELSE /\ Len(pitches') = Len(pitches) + 1
                             /\ resp'.body.startup_id =
                                   [n |-> Len(pitches'), sp |-> "lower"]]_vars

\* C2 witness: a startup registered again after another user registered: the
\* response names the first user and the first pitch, and nothing was added.
C2_Witness ==
    /\ resp.op = "register_startup"
    /\ Len(users) = 2
    /\ Len(pitches) = 1
    /\ resp.body.user_id = [n |-> 1, sp |-> "lower"]
    /\ resp.body.startup_id = [n |-> 1, sp |-> "lower"]
    /\ users[1].email = resp.args.email
    /\ users[2].role = "investor"
    /\ Len(profiles) = 1

\* C3: only approve and reject change the status of an existing pitch.
C3_StatusChangedOnlyByModeration ==
    [][\A n \in 1..Len(pitches) :
          pitches'[n].status # pitches[n].status
             => resp'.op \in {"approve_startup", "reject_startup"}]_vars

\* C4: express interest on an existing startup with a well-formed
\* investor_user_id that resolves to no User, or to a User whose role is not
\* investor, fails with 400 and changes no document.
C4_NonInvestorRejected ==
    [][(/\ resp'.op = "express_interest"
        /\ resp'.args.startup_id.sp # "bad"
        /\ resp'.args.startup_id.n \in 1..Len(pitches)
        /\ resp'.args.investor_user_id.sp # "bad"
        /\ \/ resp'.args.investor_user_id.n \notin 1..Len(users)
           \/ users[resp'.args.investor_user_id.n].role # "investor")
       => /\ resp'.code = 400
          /\ db' = db]_vars

\* C4 witness: an interest from a user whose role is startup was refused on a
\* pitch that already has raised funds.
C4_Witness ==
    /\ resp.op = "express_interest"
    /\ resp.code = 400
    /\ resp.detail = "Invalid investor user"
    /\ resp.args.investor_user_id.n \in 1..Len(users)
    /\ users[resp.args.investor_user_id.n].role = "startup"
    /\ pitches[resp.args.startup_id.n].total_raised > 0
    /\ Len(interests) = 1

\* The operations that take a startup_id path value.
PathOps == {"express_interest", "startup_dashboard", "approve_startup", "reject_startup"}

\* C5 as stated: a malformed startup_id or investor_user_id fails with 400
\* Invalid id format before any store query and changes no document.
C5_MalformedIdBeforeAnyQuery ==
    [][(/\ resp'.op \in PathOps
        /\ \/ resp'.args.startup_id.sp = "bad"
           \/ resp'.op = "express_interest" /\ resp'.args.investor_user_id.sp = "bad")
       => /\ resp'.code = 400
          /\ resp'.detail = "Invalid id format"
          /\ resp'.queries = 0
          /\ db' = db]_vars

\* C5 amended: a malformed startup_id fails with 400 Invalid id format before
\* any store query; a malformed investor_user_id with a well-formed
\* startup_id fails after the one query that looks the startup up, with 404
\* when the startup does not exist and 400 Invalid id format when it does;
\* in every case no document is created or changed.
C5_MalformedIdRejected ==
    [][(resp'.op \in PathOps)
       => /\ resp'.args.startup_id.sp = "bad"
               => /\ resp'.code = 400
                  /\ resp'.detail = "Invalid id format"
                  /\ resp'.queries = 0
                  /\ db' = db
          /\ (/\ resp'.op = "express_interest"
              /\ resp'.args.startup_id.sp # "bad"
              /\ resp'.args.investor_user_id.sp = "bad")
               => /\ resp'.queries = 1
                  /\ db' = db
                  /\ IF resp'.args.startup_id.n \in 1..Len(pitches)
                     THEN resp'.code = 400 /\ resp'.detail = "Invalid id format"
                     ELSE resp'.code = 404]_vars

\* C5 witness: an interest with a malformed investor_user_id on an existing
\* startup was refused after the startup lookup.
C5_Witness ==
    /\ resp.op = "express_interest"
    /\ resp.args.investor_user_id.sp = "bad"
    /\ resp.args.startup_id.sp # "bad"
    /\ resp.args.startup_id.n \in 1..Len(pitches)
    /\ resp.code = 400
    /\ resp.detail = "Invalid id format"
    /\ resp.queries = 1

\* C6: a successful express interest returns the sum of committed_amount over
\* all Interest documents of that startup, persists it on the pitch, and a
\* dashboard fetch with the same startup_id right afterwards reports the same
\* total and lists exactly those interests, newest first.
C6_InterestReturnsSum ==
    (resp.op = "express_interest" /\ resp.code = 200)
    => LET n == resp.args.startup_id.n
           d == DashboardResponse(resp.args.startup_id)
       IN /\ resp.body.total_raised = RefTotal(n)
          /\ pitches[n].total_raised = RefTotal(n)
          /\ d.code = 200
          /\ d.body.total_raised = resp.body.total_raised
          /\ [k \in 1..Len(d.body.interested_investors) |->
                 d.body.interested_investors[k].id.n] = Reverse(Refs(n))

\* C7: on an existing pitch approve leaves status approved and reject leaves
\* status rejected, whatever the status was, and change nothing else; on a
\* well-formed id that matches no pitch they fail with 404 and change nothing.
C7_LastWriteWins ==
    [][(resp'.op \in {"approve_startup", "reject_startup"} /\ resp'.args.startup_id.sp # "bad")
       => LET n == resp'.args.startup_id.n
              target == IF resp'.op = "approve_startup" THEN "approved" ELSE "rejected"
          IN IF n \in 1..Len(pitches)
             THEN /\ resp'.code = 200
                  /\ pitches' = [pitches EXCEPT ![n].status = target]
                  /\ <<users, profiles, interests, reports>>' =
                        <<users, profiles, interests, reports>>
             ELSE /\ resp'.code = 404
                  /\ db' = db]_vars

\* C7 witness: a pitch was rejected while another pitch stays approved.
C7_Witness ==
    /\ resp.op = "reject_startup"
    /\ resp.code = 200
    /\ Len(pitches) = 2
    /\ pitches[resp.args.startup_id.n].status = "rejected"
    /\ \E n \in 1..Len(pitches) : pitches[n].status = "approved"

\* The ids of a list response, in the order returned.
ItemIds(items) == [k \in 1..Len(items) |-> items[k].id.n]

\* The list response holds exactly the pitches in `wanted`, each once, as
\* stored, newest first.
ListsExactly(items, wanted) ==
    /\ {items[k].id.n : k \in 1..Len(items)} = wanted
    /\ \A k \in 1..Len(items) :
          /\ items[k].id.sp = "lower"
          /\ items[k].doc = pitches[items[k].id.n]
    /\ \A k \in 1..Len(items), l \in 1..Len(items) :
          k < l => items[k].id.n > items[l].id.n

\* C8 as stated: list startups returns exactly the pitches whose status
\* equals the filter value (approved when no filter is given), newest first.
C8_ListByFilterValue ==
    resp.op = "list_startups"
    => LET f == IF resp.args.query = "<absent>" THEN "approved" ELSE resp.args.query
       IN ListsExactly(resp.body, {n \in 1..Len(pitches) : pitches[n].status = f})

\* C8 amended: list startups returns exactly the pitches whose status equals
\* the filter value (approved when no filter is given), and every pitch when
\* the filter value is the empty string, each once, newest first.
C8_ListByStatus ==
    resp.op = "list_startups"
    => LET f == IF resp.args.query = "<absent>" THEN "approved" ELSE resp.args.query
       IN ListsExactly(resp.body,
                       {n \in 1..Len(pitches) : f = "" \/ pitches[n].status = f})

\* C8 witness: a list without a filter of two approved pitches, the newer
\* one first.
C8_Witness ==
    /\ resp.op = "list_startups"
    /\ resp.args.query = "<absent>"
    /\ Len(pitches) = 2
    /\ ItemIds(resp.body) = <<2, 1>>

\* The sum of committed_amount over the Interest documents referencing pitch
\* n among the first m documents of the collection.
PrefixTotal(n, m) ==
    LET ids == Refs(n)
    IN SumSeq([k \in 1..Len(ids) |->
                  IF ids[k] <= m THEN interests[ids[k]].committed_amount ELSE 0])

Succeeded(w) ==
    proc[w].pc = "done" /\ proc[w].op = "express_interest" /\ proc[w].code = 200

\* C9: with two express interest requests interleaved the stored total_raised
\* can be stale but nothing else: the total a request returns is the sum over
\* the startup's interests as they stood at some moment after its own insert,
\* and the stored total_raised is the sum over the startup's interests as they
\* stood at some moment.  The stale state itself is C9_Witness.
C9_TotalIsSomePastSum ==
    /\ \A w \in Workers :
          Succeeded(w)
          => \E m \in proc[w].interest_id.n .. Len(interests) :
                proc[w].total_raised = PrefixTotal(proc[w].startup_id.n, m)
    /\ \A n \in 1..Len(pitches) :
          \E m \in 0..Len(interests) : pitches[n].total_raised = PrefixTotal(n, m)

\* C9 witness: both requests for the same startup have completed and the
\* stored total_raised is not the sum over the startup's interests.
C9_Witness ==
    /\ \A w \in Workers : Succeeded(w)
    /\ proc[1].startup_id = proc[2].startup_id
    /\ Len(interests) = 2
    /\ pitches[proc[1].startup_id.n].total_raised # RefTotal(proc[1].startup_id.n)

\* C10: with two registration requests interleaved the natural keys are no
\* longer unique, but a key is never held by more documents than there are
\* concurrent requests.  The duplicated state itself is C10_Witness.
C10_DuplicatesBoundedByWorkers ==
    /\ \A e \in Emails : Cardinality(UsersWithEmail(e)) <= Cardinality(Workers)
    /\ \A u \in 1..Len(users) : Cardinality(PitchesOfOwner(u)) <= Cardinality(Workers)
    /\ \A u \in 1..Len(users) : Cardinality(ProfilesOfUser(u)) <= Cardinality(Workers)

\* C10 witness: two register startup requests for the same unknown email have
\* completed; two Users carry that email and each owns a StartupPitch.
C10_Witness ==
    /\ \A w \in Workers : proc[w].pc = "done" /\ proc[w].op = "register_startup"
    /\ proc[1].email = proc[2].email
    /\ proc[1].user_id # proc[2].user_id
    /\ Cardinality(UsersWithEmail(proc[1].email)) = 2
    /\ Len(pitches) = 2
    /\ pitches[1].owner_user_id # pitches[2].owner_user_id
====
